---- MODULE Spec2Model ----
(***************************************************************************)
(* Model of the trend/time-series chart module of dashbuild/setup          *)
(* (src/unnamed/part_000): formatMetric, calculateTrend, makeArrowNode and *)
(* buildTrendChart.                                                        *)
(*                                                                         *)
(* Numbers.  A JavaScript number is modelled as a fixed-point integer: the *)
(* model integer q stands for the number q / Scale.  With Scale = 4 every  *)
(* modelled number is a multiple of 0.25, which IEEE doubles represent     *)
(* exactly, so sums, differences, toFixed and toLocaleString are computed  *)
(* exactly as the engine computes them.                                    *)
(*                                                                         *)
(* Objects.  A Date and a chart point are objects; the model keeps, beside *)
(* their contents, which input object (if any) they are the same object    *)
(* as, so that an in-place write is seen by every holder of the object.    *)
(***************************************************************************)
EXTENDS Integers, Sequences, FiniteSets, TLC

\* ------------------------------------------------------------------ bounds

\* Longest metric history drawn as an input.
MaxLen == 3

\* Fixed-point units per 1 (see "Numbers" above).
Scale == 4

\* ------------------------------------------------------------ input domain

\* null and undefined (the code tests both with "== null" only); a number q
\* is held as <<q>>, so that it can be told from null
NULL == <<>>
Num(q) == <<q>>
NumberOf(v) == v[1]

\* an option that the caller did not supply (undefined)
NONE == "none"

\* Metric numbers drawn as inputs: 0, 1, 3 + 1/Scale.
Values == {0, Scale, 3 * Scale + 1}

\* Metric keys a caller may ask for; "z" is in no snapshot.
Keys == {"x", "z"}

\* A metrics mapping: the key "x" missing, null, or a number.
MetricsSet == {<<>>} \cup [{"x"} -> {NULL} \cup {Num(q) : q \in Values}]

\* The date (a day number) of the i-th snapshot: weekly samples.
SampleDay(i) == 7 * i - 4

\* Histories: ascending by date, up to MaxLen snapshots.
Histories ==
  UNION { { [i \in 1..n |-> [date |-> SampleDay(i), metrics |-> m[i]]] :
              m \in [1..n -> MetricsSet] } : n \in 0..MaxLen }

\* obj[key] of a JavaScript object: undefined (NULL) when the key is missing
Get(obj, key) == IF key \in DOMAIN obj THEN obj[key] ELSE NULL

\* A formatter function supplied by the caller (tickFormat, valueFormat):
\* here the letter of a 1..5 rating ("?" for any other number).
RatingLetter(q) ==
  IF q % Scale # 0 THEN "?"
  ELSE CASE q \div Scale = 1 -> "A" [] q \div Scale = 2 -> "B"
         [] q \div Scale = 3 -> "C" [] q \div Scale = 4 -> "D"
         [] q \div Scale = 5 -> "E" [] OTHER -> "?"
Formatters == {NONE, "rating"}
ApplyFormatter(f, v) == IF v = NULL THEN "-" ELSE RatingLetter(NumberOf(v))

\* The options a caller passes to buildTrendChart (title and color are passed
\* through to the markup unchanged and left out).
YDomains == {<<>>, <<Scale, 5 * Scale>>}
ChartOptions ==
  [suffix : {"", "%"}, yDomain : YDomains, inverse : BOOLEAN, neutral : BOOLEAN,
   tickFormat : Formatters, valueFormat : Formatters, reverse : BOOLEAN]

\* ------------------------------------------------------- number formatting

Abs(q) == IF q < 0 THEN 0 - q ELSE q

\* Number.isInteger(q / Scale)
IsInteger(q) == q % Scale = 0

\* 10^digits, digits in 0..3
Pow10(digits) ==
  CASE digits = 0 -> 1 [] digits = 1 -> 10 [] digits = 2 -> 100 [] OTHER -> 1000

\* |q / Scale| rounded to `digits` decimals, as a count of 10^-digits; a tie
\* goes to the larger magnitude, as toFixed and toLocaleString round it
RoundTo(q, digits) == (2 * Abs(q) * Pow10(digits) + Scale) \div (2 * Scale)

\* n written with exactly `digits` digits (leading zeros kept)
RECURSIVE Digits(_, _)
Digits(n, digits) ==
  IF digits = 0 THEN ""
  ELSE Digits(n \div 10, digits - 1) \o ToString(n % 10)

\* the same without its trailing zeros
RECURSIVE TrimmedDigits(_, _)
TrimmedDigits(n, digits) ==
  IF digits = 0 THEN ""
  ELSE IF n % 10 = 0 THEN TrimmedDigits(n \div 10, digits - 1)
  ELSE Digits(n, digits)

\* String(q / Scale) of an integer number
IntString(q) == (IF q < 0 THEN "-" ELSE "") \o ToString(Abs(q) \div Scale)

\* (q / Scale).toFixed(digits), digits >= 1
ToFixed(q, digits) ==
  LET n == RoundTo(q, digits)
  IN (IF q < 0 THEN "-" ELSE "") \o ToString(n \div Pow10(digits))
       \o "." \o Digits(n % Pow10(digits), digits)

\* (q / Scale).toLocaleString() in the en-US locale for |q / Scale| < 1000
\* (no grouping separator): at most three fraction digits, trailing zeros
\* dropped
ToLocaleString(q) ==
  LET n == RoundTo(q, 3)
      frac == TrimmedDigits(n % 1000, 3)
  IN (IF q < 0 THEN "-" ELSE "") \o ToString(n \div 1000)
       \o (IF frac = "" THEN "" ELSE "." \o frac)

\* formatMetric(value, suffix); the em dash is written "--"
formatMetric(value, suffix) ==
  IF value = NULL THEN "--"
  ELSE ToLocaleString(NumberOf(value)) \o suffix

\* ----------------------------------------------------------- SVG arrows

svgUpRight == "svgUpRight"
svgDownRight == "svgDownRight"
svgFlat == "svgFlat"

trendUp == "var(--dash-trend-up)"
trendDown == "var(--dash-trend-down)"
trendFlat == "var(--dash-trend-flat)"

\* -------------------------------------------------------- calculateTrend

\* the descriptor with the flat arrow in it
noTrendFlatArrow == [text |-> "", arrow |-> svgFlat, color |-> trendFlat]

noTrend == [text |-> "", arrow |-> "", color |-> trendFlat]

\* sign + (Number.isInteger(delta) ? delta : delta.toFixed(1))
DeltaText(delta) ==
  (IF delta > 0 THEN "+" ELSE "")
    \o (IF IsInteger(delta) THEN IntString(delta) ELSE ToFixed(delta, 1))

\* the polarity option ignored
IsPositiveTrendRaw(delta, inverse) == delta > 0

\* inverse ? delta < 0 : delta > 0
IsPositiveTrend(delta, inverse) == IF inverse THEN delta < 0 ELSE delta > 0

\* the newest entry, and the oldest, taken for the previous one
PreviousIndexLast(metricHistory) == Len(metricHistory)
PreviousIndexFirst(metricHistory) == 1

\* the entry whose value is compared with latestMetrics
PreviousIndex(metricHistory) == Len(metricHistory) - 1

\* the same test by falsiness: 0 counts as missing
MissingValueFalsy(previousValue, currentValue) ==
  \/ previousValue = NULL \/ currentValue = NULL
  \/ previousValue = Num(0) \/ currentValue = Num(0)

\* the test that makes calculateTrend give up before it computes a delta
MissingValue(previousValue, currentValue) ==
  previousValue = NULL \/ currentValue = NULL

\* the neutral option ignored
TrendColorPolar(delta, inverse, neutral) ==
  IF (IF inverse THEN delta < 0 ELSE delta > 0) THEN trendUp ELSE trendDown

\* the color of a non-zero delta
TrendColor(delta, inverse, neutral) ==
  IF neutral THEN trendFlat
  ELSE IF IsPositiveTrend(delta, inverse) THEN trendUp ELSE trendDown

calculateTrend(metricHistory, latestMetrics, metricKey, inverse, neutral) ==
  IF Len(metricHistory) < 2 THEN noTrend
  ELSE
    LET previousValue ==
          Get(metricHistory[PreviousIndex(metricHistory)].metrics, metricKey)
        currentValue == Get(latestMetrics, metricKey)
    IN IF MissingValue(previousValue, currentValue) THEN noTrend
       ELSE
         LET delta == NumberOf(currentValue) - NumberOf(previousValue)
             deltaText == DeltaText(delta)
         IN IF delta = 0
            THEN [text |-> deltaText, arrow |-> svgFlat, color |-> trendFlat]
            ELSE [text |-> deltaText,
                  arrow |-> IF delta > 0 THEN svgUpRight ELSE svgDownRight,
                  color |-> TrendColor(delta, inverse, neutral)]

\* makeArrowNode(trend): "" (here <<>>) or the span element
makeArrowNode(trend) ==
  IF trend.arrow = "" THEN <<>>
  ELSE <<[className |-> "trend-arrow", color |-> trend.color,
          innerHTML |-> trend.arrow]>>

\* ------------------------------------------------------- buildTrendChart

\* Days the time axis of a single-point chart starts before the point.
PadDays == 6

\* The objects buildTrendChart works on.  `same` names the caller's object a
\* value is the very same object as: for a chart point, the index of the
\* history entry (0: a newly created object); for a Date, the index of the
\* history entry whose `date` it is (0: a newly created Date).

\* the entry itself charted, not a copy of it
ChartPointShared(entry, i, metricKey) ==
  [date |-> [day |-> entry.date, same |-> i],
   value |-> NumberOf(Get(entry.metrics, metricKey)),
   same |-> i]

\* ({ date: entry.date, value: entry.metrics[metricKey] }): a new object that
\* shares the entry's Date
ChartPoint(entry, i, metricKey) ==
  [date |-> [day |-> entry.date, same |-> i],
   value |-> NumberOf(Get(entry.metrics, metricKey)),
   same |-> 0]

\* new Date(pointDate): a copy
NewDate(pointDate) == [day |-> pointDate.day, same |-> 0]

\* the indices of the entries .filter() keeps, in order
KeptIndices(history, metricKey) ==
  SelectSeq([i \in 1..Len(history) |-> i],
            LAMBDA i : Get(history[i].metrics, metricKey) # NULL)

\* metricHistory.filter(...).map(...)
Project(history, metricKey) ==
  LET kept == KeptIndices(history, metricKey)
  IN [j \in 1..Len(kept) |-> ChartPoint(history[kept[j]], kept[j], metricKey)]

\* reverse && yDomain
Reversing(options) == options.reverse /\ options.yDomain # <<>>

\* hi + lo - value
Flip(yDomain, value) == yDomain[2] + yDomain[1] - value

\* for (const d of chartData) d.value = hi + lo - d.value
ReverseData(chartData, options) ==
  IF Reversing(options)
  THEN [j \in DOMAIN chartData |->
          [chartData[j] EXCEPT !.value = Flip(options.yDomain, @)]]
  ELSE chartData

\* The caller's history as the writes to `points` and to the Date `firstDay`
\* leave it: a write to an object the history holds is a write to the history.
HistoryAfter(history, metricKey, points, dates) ==
  [i \in DOMAIN history |->
     LET hitP == {j \in DOMAIN points : points[j].same = i}
         hitD == {j \in DOMAIN dates : dates[j].same = i}
         e1 == IF hitP = {} THEN history[i]
               ELSE [history[i] EXCEPT !.metrics =
                       [k \in DOMAIN history[i].metrics \cup {metricKey} |->
                          IF k = metricKey
                          THEN Num(points[CHOOSE j \in hitP : TRUE].value)
                          ELSE history[i].metrics[k]]]
     IN IF hitD = {} THEN e1
        ELSE [e1 EXCEPT !.date = dates[CHOOSE j \in hitD : TRUE].day]]

\* chartData.every((d) => Number.isInteger(d.value))
AllIntegers(chartData) == \A j \in DOMAIN chartData : IsInteger(chartData[j].value)

\* chartData.length === 1
IsSinglePoint(chartData) == Len(chartData) = 1

\* d.toFixed(2).replace(/\.?0+$/, "") of a non-integer d
TrimmedFixed2(d) ==
  LET n == RoundTo(d, 2)
      frac == TrimmedDigits(n % 100, 2)
  IN (IF d < 0 THEN "-" ELSE "") \o ToString(n \div 100)
       \o (IF frac = "" THEN "" ELSE "." \o frac)

\* the suffix rule tried before the explicit formatter, and the reversed
\* axis labelled by the formatter as given
TickFormatSuffixFirst(options, allIntegers) ==
  IF options.suffix # ""
  THEN [rule |-> "suffix", suffix |-> options.suffix]
  ELSE IF options.tickFormat # NONE
  THEN [rule |-> "explicit", tickFormat |-> options.tickFormat]
  ELSE IF allIntegers THEN [rule |-> "d"]
  ELSE [rule |-> "plain"]

\* yAxisOptions.tickFormat: which formatter the axis gets.  A function is
\* kept as a record naming its rule and what it closes over.
TickFormat(options, allIntegers) ==
  IF Reversing(options) /\ options.tickFormat # NONE
  THEN [rule |-> "unreversed", origTickFormat |-> options.tickFormat,
        lo |-> options.yDomain[1], hi |-> options.yDomain[2]]
  ELSE IF options.tickFormat # NONE
  THEN [rule |-> "explicit", tickFormat |-> options.tickFormat]
  ELSE IF options.suffix # ""
  THEN [rule |-> "suffix", suffix |-> options.suffix]
  ELSE IF allIntegers THEN [rule |-> "d"]
  ELSE [rule |-> "plain"]

\* the label the axis formatter gives the tick at position d
TickLabel(tickFormat, d) ==
  CASE tickFormat.rule = "unreversed" ->
         ApplyFormatter(tickFormat.origTickFormat,
                        Num(tickFormat.hi + tickFormat.lo - d))
    [] tickFormat.rule = "explicit" ->
         ApplyFormatter(tickFormat.tickFormat, Num(d))
    [] tickFormat.rule = "suffix" ->
         (IF IsInteger(d) THEN IntString(d) ELSE TrimmedFixed2(d))
           \o tickFormat.suffix
    [] tickFormat.rule = "d" ->
         IntString(Scale * ((2 * d + Scale) \div (2 * Scale)))
    [] OTHER ->
         IF IsInteger(d) THEN IntString(d) ELSE TrimmedFixed2(d)

\* yAxisOptions
YAxisOptions(options, allIntegers) ==
  [grid |-> TRUE, domain |-> options.yDomain,
   tickFormat |-> TickFormat(options, allIntegers)]

\* a window of three days
FirstDayThree(pointDate) == [day |-> pointDate.day - 3, same |-> 0]

\* firstDay after firstDay.setDate(firstDay.getDate() - 6)
FirstDay(pointDate) ==
  LET firstDay == NewDate(pointDate)
  IN [firstDay EXCEPT !.day = @ - PadDays]

\* xAxisOptions
XAxisOptions(chartData) ==
  [type |-> "time",
   domain |-> IF IsSinglePoint(chartData)
              THEN <<FirstDay(chartData[1].date).day,
                     NewDate(chartData[1].date).day>>
              ELSE <<>>]

\* the display function for tooltip values, applied to a point's value
displayValue(options, v) ==
  IF Reversing(options) /\ options.valueFormat # NONE
  THEN ApplyFormatter(options.valueFormat, Num(Flip(options.yDomain, v)))
  ELSE formatMetric(Num(v), options.suffix)

\* the text of the delta node ("": no node)
DeltaNodeText(metricTrend, history, suffix) ==
  IF metricTrend.text # "" THEN metricTrend.text \o suffix \o " from previous"
  ELSE IF Len(history) = 1 THEN "No trend" ELSE ""

\* the data of a mark: the points as the plot reads them
PlotData(chartData) ==
  [j \in DOMAIN chartData |->
     [date |-> chartData[j].date.day, value |-> chartData[j].value]]

\* the chart marks
Marks(chartData, options) ==
  IF IsSinglePoint(chartData)
  THEN << [mark |-> "ruleY", y |-> chartData[1].value],
          [mark |-> "dot", data |-> PlotData(chartData)] >>
  ELSE << [mark |-> "areaY", data |-> PlotData(chartData),
           y1 |-> IF options.yDomain # <<>> THEN options.yDomain[1] ELSE 0],
          [mark |-> "lineY", data |-> PlotData(chartData)],
          [mark |-> "dot", data |-> PlotData(chartData)],
          [mark |-> "tip", data |-> PlotData(chartData),
           title |-> [j \in DOMAIN chartData |->
                        [date |-> chartData[j].date.day,
                         text |-> displayValue(options, chartData[j].value)]]] >>

\* the big number of the card
Headline(latest, metricKey, options) ==
  IF options.valueFormat # NONE
  THEN ApplyFormatter(options.valueFormat, Get(latest, metricKey))
  ELSE formatMetric(Get(latest, metricKey), options.suffix)

\* the card for an empty projection
NoDataCard == [kind |-> "nodata", muted |-> "No data"]

\* the headline kept on the card of an empty projection when there is one
EmptyCardWithHeadline(latest, metricKey, options) ==
  IF Get(latest, metricKey) = NULL THEN NoDataCard
  ELSE [kind |-> "chart", big |-> Headline(latest, metricKey, options),
        trendArrowHtml |-> <<>>, deltaNode |-> "", marks |-> <<>>]

\* what buildTrendChart returns when chartData is empty
EmptyCard(latest, metricKey, options) == NoDataCard

\* buildTrendChart(metricHistory, latestMetrics, metricKey, options): the
\* card it returns and the caller's history as the call leaves it
buildTrendChart(history, latest, metricKey, options) ==
  LET projected == Project(history, metricKey)
  IN IF Len(projected) = 0
     THEN [card |-> EmptyCard(latest, metricKey, options), metricHistory |-> history]
     ELSE
       LET allIntegers == AllIntegers(projected)
           chartData == ReverseData(projected, options)
           dates == IF IsSinglePoint(chartData)
                    THEN <<FirstDay(chartData[1].date)>> ELSE <<>>
           historyNow == HistoryAfter(history, metricKey,
                                      IF Reversing(options) THEN chartData ELSE <<>>,
                                      dates)
           metricTrend == calculateTrend(historyNow, latest, metricKey,
                                         options.inverse, options.neutral)
       IN [card |->
             [kind |-> "chart",
              big |-> Headline(latest, metricKey, options),
              trendArrowHtml |-> makeArrowNode(metricTrend),
              deltaNode |-> DeltaNodeText(metricTrend, historyNow, options.suffix),
              x |-> XAxisOptions(chartData),
              y |-> YAxisOptions(options, allIntegers),
              marks |-> Marks(chartData, options)],
           metricHistory |-> historyNow]

\* --------------------------------------------- filterToggle, filterRow

\* Most buttons of a row, and most clicks dispatched in one behaviour.
MaxButtons == 2
MaxClicks == 2

\* The tags a row is built from: { label, count, color, bgAlpha }.
Tags ==
  { [label |-> "bug", count |-> 3, color |-> "#ef4444",
     bgAlpha |-> "rgba(239,68,68,0.1)"],
    [label |-> "smell", count |-> 0, color |-> "var(--theme-yellow)",
     bgAlpha |-> "rgba(234,179,8,0.1)"] }

\* cfg.active: not given (<<>>), true or false
ActiveFlags == {<<>>, <<TRUE>>, <<FALSE>>}

\* a tag config with its optional active flag
TagConfigSet ==
  { [label |-> t.label, count |-> t.count, color |-> t.color,
     bgAlpha |-> t.bgAlpha, active |-> a] : t \in Tags, a \in ActiveFlags }

\* the rows a caller may ask for: up to MaxButtons tag configs
TagConfigSeqs == UNION { [1..n -> TagConfigSet] : n \in 0..MaxButtons }

\* A button element: whether its class list holds "active", its content and
\* its inline style.
NoStyle == [borderColor |-> "", background |-> "", color |-> ""]

\* applyActive(el) inside filterToggle({color, bgAlpha})
applyActive(el, color, bgAlpha) ==
  [el EXCEPT !.style = [borderColor |-> color, background |-> bgAlpha,
                        color |-> color]]

\* applyInactive(el)
applyInactive(el) == [el EXCEPT !.style = NoStyle]

\* filterToggle({label, count, color, bgAlpha, active, onToggle}): the button
filterToggle(cfg, active) ==
  LET btn == [active |-> active, label |-> cfg.label, count |-> cfg.count,
              style |-> NoStyle]
  IN IF active THEN applyActive(btn, cfg.color, cfg.bgAlpha) ELSE btn

\* the click listener of a button, on the element: classList.toggle("active")
\* and the style of the new state
clickListener(btn, cfg) ==
  LET isActive == ~btn.active
      el == [btn EXCEPT !.active = isActive]
  IN IF isActive THEN applyActive(el, cfg.color, cfg.bgAlpha)
     ELSE applyInactive(el)

\* the buttons filterRow(tagConfigs) builds: active unless cfg.active === false
filterRow(configs) ==
  [i \in DOMAIN configs |->
     filterToggle(configs[i], configs[i].active # <<FALSE>>)]

\* every button styled by the first tag's colors
setAllFirstColors(btns, configs, active) ==
  [i \in DOMAIN btns |->
     IF active
     THEN applyActive([btns[i] EXCEPT !.active = TRUE],
                      configs[1].color, configs[1].bgAlpha)
     ELSE applyInactive([btns[i] EXCEPT !.active = FALSE])]

\* setAll(active) of the row
setAll(btns, configs, active) ==
  [i \in DOMAIN btns |->
     IF active
     THEN applyActive([btns[i] EXCEPT !.active = TRUE],
                      configs[i].color, configs[i].bgAlpha)
     ELSE applyInactive([btns[i] EXCEPT !.active = FALSE])]

\* ------------------------------------------------------------------ state

VARIABLES
  metricHistory,   \* the caller's history array (and the objects in it)
  latestMetrics,   \* the caller's latest metrics object
  last,            \* the last call made and what it returned
  tagConfigs,      \* the tagConfigs array a filter row was built from
  onToggleGiven,   \* whether filterRow was given an onToggle callback
  buttons,         \* the row's button elements
  toggled,         \* the calls of the row's onToggle so far: <<label, isActive>>
  clicks           \* the click events dispatched so far

chartVars == <<metricHistory, latestMetrics, last>>
filterVars == <<tagConfigs, onToggleGiven, buttons, toggled, clicks>>
vars == <<metricHistory, latestMetrics, last,
          tagConfigs, onToggleGiven, buttons, toggled, clicks>>

\* no filter row has been built
NoFilterRow ==
  /\ tagConfigs = <<>> /\ onToggleGiven = FALSE
  /\ buttons = <<>> /\ toggled = <<>> /\ clicks = 0

\* no chart inputs, no chart call
NoChart ==
  /\ metricHistory = <<>> /\ latestMetrics = <<>> /\ last = [op |-> "none"]

Init ==
  /\ metricHistory \in Histories
  /\ latestMetrics \in MetricsSet
  /\ last = [op |-> "none"]
  /\ NoFilterRow

\* Each behaviour is one render: the inputs, then one call.  The functions
\* keep nothing between calls, so a second call would start from Init again.
Ready == last.op = "none"

\* a caller calls calculateTrend
CalculateTrend ==
  \E metricKey \in Keys, inverse \in BOOLEAN, neutral \in BOOLEAN :
    /\ Ready
    /\ last' = [op |-> "calculateTrend", metricKey |-> metricKey,
                inverse |-> inverse, neutral |-> neutral,
                result |-> calculateTrend(metricHistory, latestMetrics,
                                          metricKey, inverse, neutral)]
    /\ UNCHANGED <<metricHistory, latestMetrics>>
    /\ UNCHANGED filterVars

\* a caller calls buildTrendChart
BuildTrendChart ==
  \E metricKey \in Keys, options \in ChartOptions :
    LET call == buildTrendChart(metricHistory, latestMetrics, metricKey, options)
    IN /\ Ready
       /\ last' = [op |-> "buildTrendChart", metricKey |-> metricKey,
                   options |-> options, result |-> call.card]
       /\ metricHistory' = call.metricHistory
       /\ UNCHANGED latestMetrics
       /\ UNCHANGED filterVars

Next == CalculateTrend \/ BuildTrendChart

Spec == Init /\ [][Next]_vars

\* The filter row: filterRow(tagConfigs, {onToggle}) has returned.
InitFilter ==
  /\ NoChart
  /\ tagConfigs \in TagConfigSeqs
  /\ onToggleGiven \in BOOLEAN
  /\ buttons = filterRow(tagConfigs)
  /\ toggled = <<>>
  /\ clicks = 0

\* the user clicks button i: its listener runs, then the row's onToggle
Click(i) ==
  /\ i \in DOMAIN buttons
  /\ clicks < MaxClicks
  /\ clicks' = clicks + 1
  /\ buttons' = [buttons EXCEPT ![i] = clickListener(@, tagConfigs[i])]
  /\ toggled' = IF onToggleGiven
                THEN Append(toggled, <<tagConfigs[i].label, buttons'[i].active>>)
                ELSE toggled
  /\ UNCHANGED <<tagConfigs, onToggleGiven>>
  /\ UNCHANGED chartVars

\* the caller calls setAll(active)
SetAll(active) ==
  /\ buttons' = setAll(buttons, tagConfigs, active)
  /\ UNCHANGED <<tagConfigs, onToggleGiven, toggled, clicks>>
  /\ UNCHANGED chartVars

ClickAny == \E i \in DOMAIN buttons : Click(i)
SetAllAny == \E active \in BOOLEAN : SetAll(active)

NextFilter == ClickAny \/ SetAllAny

SpecFilter == InitFilter /\ [][NextFilter]_vars

\* ------------------------------------------------------------- properties

\* what the last call was
TrendCall == last.op = "calculateTrend"
ChartCall == last.op = "buildTrendChart"

\* the two values calculateTrend is documented to compare
PrevValue == Get(metricHistory[Len(metricHistory) - 1].metrics, last.metricKey)
CurValue == Get(latestMetrics, last.metricKey)

\* the "no trend" descriptor, spelled out
IsNoTrend(t) == t.text = "" /\ t.arrow = "" /\ t.color = "var(--dash-trend-flat)"

\* C1: for a history of fewer than 2 entries calculateTrend returns the
\* "no trend" descriptor (empty text, empty arrow, flat color), whatever the
\* latest mapping, the key, inverse and neutral are.
C1_ShortHistoryNoTrend ==
  (TrendCall /\ Len(metricHistory) < 2) => IsNoTrend(last.result)

C1_Witness ==
  /\ TrendCall /\ Len(metricHistory) = 1
  /\ Get(metricHistory[1].metrics, last.metricKey) # NULL
  /\ CurValue # NULL /\ last.inverse /\ IsNoTrend(last.result)

\* C2: for a history of at least 2 entries calculateTrend returns "no trend"
\* exactly when the value at history[length-2] or latest[key] is null or
\* missing; a 0 at either comparison point is a value, and a delta is computed.
C2_NoTrendIffMissing ==
  (TrendCall /\ Len(metricHistory) >= 2) =>
    /\ IsNoTrend(last.result) <=> (PrevValue = NULL \/ CurValue = NULL)
    /\ (PrevValue # NULL /\ CurValue # NULL) => last.result.arrow # ""

C2_Witness ==
  /\ TrendCall /\ Len(metricHistory) >= 2
  /\ PrevValue = Num(0) /\ CurValue # NULL /\ CurValue # Num(0)
  /\ last.result.arrow = svgUpRight

\* C3: with a non-zero delta and neutral = false, the call with the other
\* value of inverse gives the opposite color (up-color against down-color),
\* the same arrow (up for delta > 0, down for delta < 0) and the same text.
C3_InverseFlipsColorOnly ==
  (/\ TrendCall /\ Len(metricHistory) >= 2 /\ ~last.neutral
   /\ PrevValue # NULL /\ CurValue # NULL /\ PrevValue # CurValue) =>
    LET other == calculateTrend(metricHistory, latestMetrics, last.metricKey,
                                ~last.inverse, FALSE)
        up == NumberOf(CurValue) > NumberOf(PrevValue)
    IN /\ {last.result.color, other.color} =
            {"var(--dash-trend-up)", "var(--dash-trend-down)"}
       /\ last.result.color # other.color
       /\ last.result.arrow = other.arrow
       /\ last.result.arrow = (IF up THEN svgUpRight ELSE svgDownRight)
       /\ last.result.text = other.text
       /\ last.result.text # ""

C3_Witness ==
  /\ TrendCall /\ Len(metricHistory) >= 2 /\ ~last.neutral /\ last.inverse
  /\ PrevValue # NULL /\ CurValue # NULL
  /\ NumberOf(CurValue) < NumberOf(PrevValue)
  /\ last.result.color = "var(--dash-trend-up)"
  /\ last.result.arrow = svgDownRight

\* C4: with neutral = true calculateTrend returns the flat color for every
\* history, latest, key and inverse, whatever the delta is.
C4_NeutralIsFlat ==
  (TrendCall /\ last.neutral) => last.result.color = "var(--dash-trend-flat)"

C4_Witness ==
  /\ TrendCall /\ last.neutral /\ Len(metricHistory) >= 2
  /\ PrevValue # NULL /\ CurValue # NULL /\ PrevValue # CurValue
  /\ last.result.arrow = svgUpRight
  /\ last.result.color = "var(--dash-trend-flat)"

\* C5: when the value at history[length-2] and latest[key] are both there and
\* equal, calculateTrend returns the flat arrow, the flat color and the text
\* "0" or "+0", for any inverse and neutral: not the "no trend" descriptor.
C5_EqualIsFlat ==
  (/\ TrendCall /\ Len(metricHistory) >= 2
   /\ PrevValue # NULL /\ PrevValue = CurValue) =>
    /\ last.result.arrow = svgFlat
    /\ last.result.color = "var(--dash-trend-flat)"
    /\ last.result.text \in {"0", "+0"}
    /\ ~IsNoTrend(last.result)

C5_Witness ==
  /\ TrendCall /\ Len(metricHistory) >= 2
  /\ PrevValue = Num(3 * Scale + 1) /\ CurValue = PrevValue
  /\ Get(metricHistory[Len(metricHistory)].metrics, last.metricKey) # CurValue
  /\ last.inverse /\ ~last.neutral
  /\ last.result.text = "0"

\* the original (un-reversed) values the chart of the last call is drawn from
OriginalValues ==
  LET kept == SelectSeq([i \in 1..Len(metricHistory) |-> i],
                        LAMBDA i : Get(metricHistory[i].metrics, last.metricKey) # NULL)
  IN [j \in 1..Len(kept) |->
        NumberOf(Get(metricHistory[kept[j]].metrics, last.metricKey))]

\* the text a value is formatted to under the options of the last call:
\* valueFormat if supplied, else the default number + suffix formatter
FormatOriginal(v) ==
  IF last.options.valueFormat # NONE
  THEN ApplyFormatter(last.options.valueFormat, Num(v))
  ELSE formatMetric(Num(v), last.options.suffix)

\* the last call drew a reversed chart with tooltips
ReversedTooltips ==
  /\ ChartCall /\ last.options.reverse /\ last.options.yDomain # <<>>
  /\ last.result.kind = "chart" /\ Len(last.result.marks) = 4

\* C6: with reverse = true and a fixed yDomain, the tooltip text of every
\* (reversed) point equals the formatting of the point's original value,
\* whether valueFormat and suffix are given or not.  (Stated for the values
\* that lie inside the domain.)
C6_TooltipRoundTrip ==
  ReversedTooltips =>
    \A j \in DOMAIN OriginalValues :
      (/\ last.options.yDomain[1] <= OriginalValues[j]
       /\ OriginalValues[j] <= last.options.yDomain[2]) =>
        last.result.marks[4].title[j].text = FormatOriginal(OriginalValues[j])

C8_EmptyHistoryKeepsHeadline ==
  (ChartCall /\ Len(metricHistory) = 0) =>
    /\ CurValue = NULL => last.result.kind = "nodata"
    /\ CurValue # NULL =>
         /\ last.result.kind = "chart"
         /\ last.result.big = FormatOriginal(NumberOf(CurValue))

\* C8 as amended: for an empty history buildTrendChart returns the "no data"
\* card whether latest[key] is there or not; no headline value is rendered.
C8_EmptyHistoryNoData ==
  (ChartCall /\ Len(metricHistory) = 0) =>
    /\ last.result.kind = "nodata"
    /\ last.result.muted = "No data"
    /\ "big" \notin DOMAIN last.result

C8_Witness ==
  /\ ChartCall /\ Len(metricHistory) = 0 /\ last.metricKey = "x"
  /\ CurValue = Num(Scale) /\ last.result.kind = "nodata"

\* the newest entry before the last one that has a value for the key (0: none)
PreviousAvailable ==
  LET has == {i \in 1..(Len(metricHistory) - 1) :
                Get(metricHistory[i].metrics, last.metricKey) # NULL}
  IN IF has = {} THEN 0 ELSE CHOOSE i \in has : \A k \in has : k <= i

\* the delta text of going from the number a to the number b
ExpectedDelta(a, b) ==
  LET delta == b - a
  IN (IF delta > 0 THEN "+" ELSE "") \o
     (IF delta % Scale = 0 THEN IntString(delta) ELSE ToFixed(delta, 1))

\* C9 as claimed: whenever latest[key] and an earlier snapshot both have a
\* value, calculateTrend reports the delta between latest[key] and the most
\* recent available earlier value, skipping snapshots that lack the key.
C9_TwoMostRecentAvailable ==
  (/\ TrendCall /\ Len(metricHistory) >= 2
   /\ CurValue # NULL /\ PreviousAvailable # 0) =>
    /\ ~IsNoTrend(last.result)
    /\ last.result.text =
         ExpectedDelta(NumberOf(Get(metricHistory[PreviousAvailable].metrics,
                                    last.metricKey)),
                       NumberOf(CurValue))

\* C9 as amended: calculateTrend compares latest[key] with the value at
\* history[length-2] and with no other snapshot: if both are there it reports
\* their delta, and if history[length-2] lacks the key it reports "no trend"
\* even when an earlier snapshot has a value.
C9_ComparesSecondToLast ==
  (TrendCall /\ Len(metricHistory) >= 2 /\ CurValue # NULL) =>
    /\ PrevValue # NULL =>
         /\ last.result.text =
              ExpectedDelta(NumberOf(PrevValue), NumberOf(CurValue))
         /\ last.result.arrow =
              (IF NumberOf(CurValue) > NumberOf(PrevValue) THEN svgUpRight
               ELSE IF NumberOf(CurValue) < NumberOf(PrevValue) THEN svgDownRight
               ELSE svgFlat)
    /\ PrevValue = NULL => IsNoTrend(last.result)

C9_Witness ==
  /\ TrendCall /\ Len(metricHistory) = 3 /\ CurValue # NULL
  /\ PrevValue = NULL /\ PreviousAvailable = 1
  /\ IsNoTrend(last.result)

\* the trend summary a chart card shows
Summary(card) == <<card.trendArrowHtml, card.deltaNode>>

\* C10: buildTrendChart leaves its inputs as they were (every entry's date
\* and metric values, and the latest mapping), also with reverse = true and a
\* fixed yDomain; the trend summary on the card is calculateTrend of the
\* original history, latest and key, and is the same for reverse = true and
\* reverse = false.
C10_NoMutation ==
  [][ (last'.op = "buildTrendChart") =>
        /\ metricHistory' = metricHistory
        /\ latestMetrics' = latestMetrics
        /\ last'.result.kind = "chart" =>
             LET o == last'.options
                 t == calculateTrend(metricHistory, latestMetrics,
                                     last'.metricKey, o.inverse, o.neutral)
                 other == buildTrendChart(metricHistory, latestMetrics,
                                          last'.metricKey,
                                          [o EXCEPT !.reverse = ~@]).card
             IN /\ last'.result.trendArrowHtml =
                     (IF t.arrow = "" THEN <<>>
                      ELSE <<[className |-> "trend-arrow", color |-> t.color,
                              innerHTML |-> t.arrow]>>)
                /\ last'.result.deltaNode =
                     (IF t.text # "" THEN t.text \o o.suffix \o " from previous"
                      ELSE IF Len(metricHistory) = 1 THEN "No trend" ELSE "")
                /\ Summary(last'.result) = Summary(other)
    ]_vars

C10_Witness ==
  /\ ChartCall /\ last.options.reverse /\ last.options.yDomain # <<>>
  /\ Len(metricHistory) = 3 /\ last.result.kind = "chart"
  /\ PrevValue = Num(Scale) /\ CurValue = Num(0)
  /\ Len(last.result.marks) = 4
  /\ \E j \in DOMAIN OriginalValues :
       last.result.marks[1].data[j].value # OriginalValues[j]
  /\ last.result.deltaNode = "-1 from previous"

\* axis positions at which tick labels are compared: 1, 1 + 1/Scale, 3
TickPositions == {Scale, Scale + 1, 3 * Scale}

\* the integer / trimmed two-decimal text of the number d
PlainNumber(d) ==
  IF d % Scale = 0 THEN IntString(d)
  ELSE LET n == RoundTo(d, 2)
       IN ToString(n \div 100) \o "." \o TrimmedDigits(n % 100, 2)

\* C11: the tick formatter is chosen by the first rule that matches: (a) an
\* explicit tickFormat, (b) a suffix (integers plain, other numbers to two
\* decimals with trailing zeros trimmed, then the suffix), (c) every
\* projected value an integer (integer formatting), (d) the plain integer /
\* trimmed-decimal rule; and with reverse, a fixed yDomain [lo, hi] and an
\* explicit tickFormat, the tick at position d is labelled tickFormat(hi+lo-d).
C11_TickFormatFirstMatch ==
  (ChartCall /\ last.result.kind = "chart") =>
    LET o == last.options
        label(d) == TickLabel(last.result.y.tickFormat, d)
    IN \A d \in TickPositions :
         label(d) =
           IF o.tickFormat # NONE
           THEN IF o.reverse /\ o.yDomain # <<>>
                THEN ApplyFormatter(o.tickFormat,
                                    Num(o.yDomain[2] + o.yDomain[1] - d))
                ELSE ApplyFormatter(o.tickFormat, Num(d))
           ELSE IF o.suffix # "" THEN PlainNumber(d) \o o.suffix
           ELSE IF \A j \in DOMAIN OriginalValues : OriginalValues[j] % Scale = 0
           THEN ToString((2 * d + Scale) \div (2 * Scale))
           ELSE PlainNumber(d)

C11_Witness ==
  /\ ChartCall /\ last.result.kind = "chart"
  /\ last.options.reverse /\ last.options.yDomain # <<>>
  /\ last.options.tickFormat # NONE /\ last.options.suffix # ""
  /\ \E j \in DOMAIN OriginalValues : OriginalValues[j] % Scale # 0
  /\ TickLabel(last.result.y.tickFormat, Scale) = "E"

\* button i is in a consistent state: "active" exactly when its inline border,
\* background and text colors are those of its own config, and they are
\* empty when it is inactive
ConsistentButton(i) ==
  LET own == [borderColor |-> tagConfigs[i].color,
              background |-> tagConfigs[i].bgAlpha,
              color |-> tagConfigs[i].color]
  IN /\ buttons[i].active <=> buttons[i].style = own
     /\ ~buttons[i].active =>
          buttons[i].style = [borderColor |-> "", background |-> "", color |-> ""]

\* what a click on button i does to the row
ClickEffect(i) ==
  /\ buttons'[i].active = ~buttons[i].active
  /\ \A k \in DOMAIN buttons : k # i => buttons'[k] = buttons[k]
  /\ DOMAIN buttons' = DOMAIN buttons
  /\ onToggleGiven =>
       toggled' = toggled \o << <<tagConfigs[i].label, ~buttons[i].active>> >>

\* C12: after any sequence of clicks and setAll(true/false) calls every button
\* of a row is consistent (ConsistentButton), and each click flips exactly the
\* clicked button's state and calls the row's onToggle exactly once, with that
\* button's label and its new state, leaving the other buttons unchanged.
C12_FilterRowConsistent ==
  /\ [](\A i \in DOMAIN buttons : ConsistentButton(i))
  /\ [][\A i \in DOMAIN buttons : Click(i) => ClickEffect(i)]_vars

C12_Witness ==
  /\ Len(buttons) = 2 /\ tagConfigs[1].color # tagConfigs[2].color
  /\ tagConfigs[2].active = <<>>
  /\ buttons[1].active /\ ~buttons[2].active
  /\ buttons[1].style.background = tagConfigs[1].bgAlpha
  /\ clicks = 2
  /\ toggled = << <<tagConfigs[1].label, FALSE>>, <<tagConfigs[2].label, FALSE>> >>
====
